---- MODULE Spec2Model ----
(***************************************************************************)
(* A model of newapp.py, the Customer Feedback Keyword Analyzer: the       *)
(* section extractor (extract_sections), the cached loader                 *)
(* (load_and_process) and the main script body that aggregates and filters *)
(* the working table.                                                      *)
(*                                                                         *)
(* A text is a sequence of tokens.  A token is either one of the four      *)
(* label markers or a single character.  No label marker overlaps another  *)
(* (each starts with "<b>" and its only other "<" opens the closing        *)
(* "</b>"), so a regular expression that names a marker matches exactly at *)
(* a marker token.                                                         *)
(***************************************************************************)
EXTENDS Integers, Sequences, FiniteSets, TLC

VARIABLES
    text,           \* the extractor alone: its argument
    sections,       \* the extractor alone: its result
    uploaded_file,  \* st.file_uploader's value
    pc,             \* where the script run stands
    df,             \* load_and_process: the table read_large_csv returned
    slots,          \* load_and_process: the apply's output, one slot per row
    df_cleaned,     \* the working table load_and_process returned
    errors,         \* the st.error messages on the page
    exception,      \* the uncaught exception that ended the script run
    widgets,        \* the text inputs' values in the last run of the main logic
    page            \* what the main logic rendered

evars == <<text, sections>>

pvars == <<uploaded_file, pc, df, slots, df_cleaned, errors, exception, widgets, page>>

vars == <<text, sections, uploaded_file, pc, df, slots, df_cleaned, errors, exception,
          widgets, page>>

(* ------------------------------ bounds --------------------------------- *)

MaxTextLen == 6

MaxRows == 2

(* ------------------------------ tokens --------------------------------- *)

LabelIssue == "<b>Customer Issue:</b>"

LabelActions == "<b>Agent's Actions:</b>"

LabelAnxiety == "<b>Customer's Anxiety:</b>"

LabelKeywords == "<b>Important Keywords:</b>"

Label == <<LabelIssue, LabelActions, LabelAnxiety, LabelKeywords>>

Labels == {Label[k] : k \in 1..4}

\* str.strip() with no argument removes these from both ends
Whitespace == {" ", "\n"}

NoMatch == "None"

(* ------------------------- extract_sections ---------------------------- *)

\* "." without re.DOTALL: every character but the newline
DotNoDotAll(c) == c # "\n"

\* "." under re.DOTALL: every character (the characters of a marker included)
Dot(c) == TRUE

AllDot(s, i, j) == \A n \in i..j : Dot(s[n])

\* a search whose group runs to the end of the text when B does not follow
SearchLazyOrEnd(s, A, B) ==
    LET Starts == {i \in 1..Len(s) : s[i] = A}
    IN  IF Starts = {} THEN NoMatch
        ELSE LET i == CHOOSE x \in Starts : \A y \in Starts : x <= y
                 Ends == {j \in (i + 1)..(Len(s) + 1) : j = Len(s) + 1 \/ s[j] = B}
                 j == CHOOSE x \in Ends : \A y \in Ends : x <= y
             IN  SubSeq(s, i + 1, j - 1)

\* re.search(A + "(.*?)" + B, s, re.DOTALL): the leftmost start, and from it
\* the shortest group; group(1), or None
SearchLazy(s, A, B) ==
    LET Ends(i) == {j \in (i + 1)..Len(s) : s[j] = B /\ AllDot(s, i + 1, j - 1)}
        Starts == {i \in 1..Len(s) : s[i] = A /\ Ends(i) # {}}
    IN  IF Starts = {} THEN NoMatch
        ELSE LET i == CHOOSE x \in Starts : \A y \in Starts : x <= y
                 j == CHOOSE x \in Ends(i) : \A y \in Ends(i) : x <= y
             IN  SubSeq(s, i + 1, j - 1)

\* re.search(A + "(.*)", s, re.DOTALL): the leftmost start, and from it the
\* longest group
SearchGreedy(s, A) ==
    LET Starts == {i \in 1..Len(s) : s[i] = A}
    IN  IF Starts = {} THEN NoMatch
        ELSE LET i == CHOOSE x \in Starts : \A y \in Starts : x <= y
                 Stops == {j \in i..Len(s) : AllDot(s, i + 1, j)}
                 j == CHOOSE x \in Stops : \A y \in Stops : x >= y
             IN  SubSeq(s, i + 1, j)

RECURSIVE LStrip(_)
LStrip(s) == IF s # <<>> /\ Head(s) \in Whitespace THEN LStrip(Tail(s)) ELSE s

RECURSIVE RStrip(_)
RStrip(s) ==
    IF s # <<>> /\ s[Len(s)] \in Whitespace THEN RStrip(SubSeq(s, 1, Len(s) - 1)) ELSE s

StripNothing(s) == s

\* str.strip()
Strip(s) == RStrip(LStrip(s))

\* m.group(1).strip() if m else ""
GroupOrEmpty(m) == IF m = NoMatch THEN <<>> ELSE Strip(m)

\* The four fields in label order: Customer Issue, Agent's Actions,
\* Customer's Anxiety, Important Keywords.
extract_sections(s) ==
    <<GroupOrEmpty(SearchLazy(s, LabelIssue, LabelActions)),
      GroupOrEmpty(SearchLazy(s, LabelActions, LabelAnxiety)),
      GroupOrEmpty(SearchLazy(s, LabelAnxiety, LabelKeywords)),
      GroupOrEmpty(SearchGreedy(s, LabelKeywords))>>

RECURSIVE SeqsUpTo(_, _)
SeqsUpTo(S, n) ==
    IF n = 0 THEN {<<>>}
    ELSE LET shorter == SeqsUpTo(S, n - 1)
         IN  shorter \cup {Append(s, c) : s \in shorter, c \in S}

NotRun == "NotRun"

(* ----------------------------- the upload ------------------------------ *)

\* a cell read with dtype=str that holds text
Str(s) == [isna |-> FALSE, str |-> s]

\* an empty field of the file: pandas reads it as NaN, a float, also under
\* dtype=str
NaN == [isna |-> TRUE, str |-> <<>>]

Range(f) == {f[i] : i \in DOMAIN f}

CellWellFormed ==
    Str(<<LabelIssue, "a", LabelActions, "A", ".", LabelAnxiety, "h",
          LabelKeywords, "r", "_", "R">>)

CellUntidy ==
    Str(<<" ", LabelIssue, " ", "A", "(", LabelActions, LabelAnxiety, "\n", "m",
          LabelKeywords, " ", "c", "_", " ", "_", "r", "_", "r", "_">>)

CellMalformed == Str(<<" ", LabelIssue, "a", LabelAnxiety, "h">>)

TextCells == {CellWellFormed, CellUntidy, CellMalformed, NaN}

\* col.lower(), on the column names of the model
ColumnLower(col) == CASE col = "Thread_Text" -> "thread_text" [] OTHER -> col

\* 'thread_text' in col.lower(): of the model's lowered names only this one
\* contains it
HasThreadText(col) == ColumnLower(col) = "thread_text"

ColumnLayouts == {<<"ticket_id">>, <<"Thread_Text">>, <<"thread_text", "ASP_slab">>}

CellsOf(col) ==
    IF HasThreadText(col) THEN TextCells
    ELSE IF col = "ASP_slab" THEN {Str(<<"x">>), Str(<<"y">>)}
    ELSE {Str(<<"1">>)}

RowsOf(cols) ==
    {r \in [Range(cols) -> TextCells \cup UNION {CellsOf(c) : c \in Range(cols)}] :
        \A c \in Range(cols) : r[c] \in CellsOf(c)}

NoFile == [kind |-> "none", columns |-> <<>>, rows |-> <<>>]

\* what the user can upload: a file pandas cannot parse, or a table of up to
\* MaxRows data rows under one of the column layouts
Files ==
    {[kind |-> "unreadable", columns |-> <<>>, rows |-> <<>>]}
    \cup UNION {{[kind |-> "table", columns |-> cols, rows |-> rows] :
                    rows \in SeqsUpTo(RowsOf(cols), MaxRows)} : cols \in ColumnLayouts}

(* -------------------------- load_and_process --------------------------- *)

NoTable == [columns |-> <<>>, rows |-> <<>>]

NoException == [type |-> "none", at |-> "none"]

ErrEmpty == "The uploaded CSV file is empty."

ErrRead == "Error reading CSV file"

ErrNoColumn == "No column named 'thread_text' found."

\* next((col for col in df.columns if 'thread_text' in col.lower()), None), as
\* a sequence of at most one name
text_column(columns) ==
    LET hits == {i \in 1..Len(columns) : HasThreadText(columns[i])}
    IN  IF hits = {} THEN <<>>
        ELSE <<columns[CHOOSE i \in hits : \A j \in hits : i <= j]>>

\* s.split(sep)
RECURSIVE Split(_, _)
Split(s, sep) ==
    LET hits == {i \in 1..Len(s) : s[i] = sep}
    IN  IF hits = {} THEN <<s>>
        ELSE LET i == CHOOSE x \in hits : \A y \in hits : x <= y
             IN  <<SubSeq(s, 1, i - 1)>> \o Split(SubSeq(s, i + 1, Len(s)), sep)

NonEmpty(s) == s # <<>>

StripAll(pieces) == [i \in 1..Len(pieces) |-> Strip(pieces[i])]

\* [kw.strip() for kw in str(x).split('_') if kw.strip()]
KeywordList(raw) == SelectSeq(StripAll(Split(raw, "_")), NonEmpty)

PassThroughCols == {"ASP_slab", "analytic_business_unit", "vip_flag", "sub_sub_issue_type"}

\* df_cleaned[col] = df[col] if col in df.columns else "": row i's value
PassThrough(table, i, col) ==
    IF col \in Range(table.columns) THEN table.rows[i][col] ELSE Str(<<>>)

WorkingRow(table, i, secs) ==
    [CustomerIssue |-> secs[1],
     AgentsActions |-> secs[2],
     CustomersAnxiety |-> secs[3],
     ImportantKeywords |-> secs[4],
     KeywordList |-> KeywordList(secs[4]),
     extra |-> [col \in PassThroughCols |-> PassThrough(table, i, col)]]

Pending == <<>>

\* the result lands in the first slot still free
WriteNextFreeSlot(out, i, secs) ==
    LET free == {j \in 1..Len(out) : out[j] = Pending}
    IN  [out EXCEPT ![CHOOSE j \in free : \A k \in free : j <= k] = <<secs>>]

\* the apply keeps the index: row i's result is row i of the output
WriteSlot(out, i, secs) == [out EXCEPT ![i] = <<secs>>]

(* ----------------------------- aggregation ----------------------------- *)

\* keyword_freq[kw] = keyword_freq.get(kw, 0) + 1, the dict in insertion order
DictIncr(freq, key) ==
    IF \E i \in 1..Len(freq) : freq[i].key = key
    THEN [i \in 1..Len(freq) |->
            IF freq[i].key = key THEN [freq[i] EXCEPT !.n = @ + 1] ELSE freq[i]]
    ELSE Append(freq, [key |-> key, n |-> 1])

RECURSIVE CountAll(_, _)
CountAll(freq, items) ==
    IF items = <<>> THEN freq ELSE CountAll(DictIncr(freq, Head(items)), Tail(items))

\* the rows' keyword lists one after the other
RECURSIVE AllKeywords(_)
AllKeywords(d) == IF d = <<>> THEN <<>> ELSE Head(d).KeywordList \o AllKeywords(Tail(d))

keyword_freq(d) == CountAll(<<>>, AllKeywords(d))

InsertAt(s, k, x) == SubSeq(s, 1, k) \o <<x>> \o SubSeq(s, k + 1, Len(s))

\* x goes before the entries that count the same
InsertDescBeforeTies(sorted, x) ==
    InsertAt(sorted, Cardinality({i \in 1..Len(sorted) : sorted[i].n > x.n}), x)

\* x goes after every entry that counts at least as much
InsertDesc(sorted, x) ==
    InsertAt(sorted, Cardinality({i \in 1..Len(sorted) : sorted[i].n >= x.n}), x)

RECURSIVE SortInto(_, _)
SortInto(sorted, items) ==
    IF items = <<>> THEN sorted ELSE SortInto(InsertDesc(sorted, Head(items)), Tail(items))

\* sorted(items, key=lambda x: x[1], reverse=True): by count, descending, equal
\* counts in their original order
sorted_keywords(d) == SortInto(<<>>, keyword_freq(d))

\* Series.value_counts(): by count, descending
value_counts(series) == SortInto(<<>>, CountAll(<<>>, series))

KeepAll(v) == TRUE

\* anxiety_counts.str.strip() != ""
NotBlank(v) == Strip(v) # <<>>

RECURSIVE SumCount(_)
SumCount(rows) == IF rows = <<>> THEN 0 ELSE Head(rows).Count + SumCount(Tail(rows))

TotalLevel == <<"T", "o", "t", "a", "l">>

anxiety_df_with_total(d) ==
    LET series == [i \in 1..Len(d) |-> d[i].CustomersAnxiety]
        anxiety_counts == value_counts(SelectSeq(series, NotBlank))
        anxiety_df == [i \in 1..Len(anxiety_counts) |->
                         [AnxietyLevel |-> anxiety_counts[i].key,
                          Count |-> anxiety_counts[i].n]]
    IN  Append(anxiety_df, [AnxietyLevel |-> TotalLevel, Count |-> SumCount(anxiety_df)])

(* ------------------------------- filters ------------------------------- *)

\* df[mask]: the rows whose mask is set, in the table's order
BoolIndex(d, mask) ==
    LET F[i \in 0..Len(d)] ==
            IF i = 0 THEN <<>>
            ELSE IF mask[i] THEN Append(F[i - 1], d[i]) ELSE F[i - 1]
    IN  F[Len(d)]

\* the selectbox's value: its first option, None (no option) as <<>>
selected_keyword(d) ==
    LET keyword_options == sorted_keywords(d)
    IN  IF keyword_options = <<>> THEN <<>> ELSE <<keyword_options[1].key>>

filtered_df_dropdown(d) ==
    BoolIndex(d, [i \in 1..Len(d) |->
        \E j \in 1..Len(d[i].KeywordList) : <<d[i].KeywordList[j]>> = selected_keyword(d)])

LowerNothing(c) == c

\* str.lower(), one character
Lower(c) ==
    CASE c = "A" -> "a"
      [] c = "C" -> "c"
      [] c = "R" -> "r"
      [] OTHER -> c

LowerStr(s) == [i \in 1..Len(s) |-> Lower(s[i])]

LowerAll(pieces) == [i \in 1..Len(pieces) |-> LowerStr(pieces[i])]

\* [kw.strip().lower() for kw in search_input.split(',') if kw.strip()]
search_keywords(search_input) ==
    LowerAll(SelectSeq(StripAll(Split(search_input, ",")), NonEmpty))

\* any(kw in [k.lower() for k in kws] for kw in search_keywords)
filtered_df_text(d, search_input) ==
    LET wanted == search_keywords(search_input)
    IN  BoolIndex(d, [i \in 1..Len(d) |->
            \E k \in 1..Len(wanted) : \E j \in 1..Len(d[i].KeywordList) :
                LowerStr(d[i].KeywordList[j]) = wanted[k]])

\* re.compile(pat) raises re.error: an unterminated group, a "*" with nothing
\* to repeat, a "*" after a "*".  Patterns are made of letters, ".", "*" and
\* "(".
CompileError(pat) ==
    \E i \in 1..Len(pat) :
        \/ pat[i] = "("
        \/ pat[i] = "*" /\ (i = 1 \/ pat[i - 1] = "*")

\* the compiled pattern: its atoms, each a character or ".", starred or not
RECURSIVE Atoms(_)
Atoms(pat) ==
    IF pat = <<>> THEN <<>>
    ELSE IF Len(pat) >= 2 /\ pat[2] = "*"
         THEN <<[ch |-> pat[1], star |-> TRUE]>> \o Atoms(SubSeq(pat, 3, Len(pat)))
         ELSE <<[ch |-> pat[1], star |-> FALSE]>> \o Atoms(Tail(pat))

\* one pattern character against one character of the text, under re.IGNORECASE
AtomMatches(ch, c) == IF ch = "." THEN c # "\n" ELSE Lower(ch) = Lower(c)

\* the atoms match a piece of s that starts at position i
RECURSIVE MatchHere(_, _, _)
MatchHere(atoms, s, i) ==
    IF atoms = <<>> THEN TRUE
    ELSE LET a == Head(atoms)
         IN  IF a.star
             THEN \E n \in 0..(Len(s) - i + 1) :
                     /\ \A k \in i..(i + n - 1) : AtomMatches(a.ch, s[k])
                     /\ MatchHere(Tail(atoms), s, i + n)
             ELSE /\ i <= Len(s)
                  /\ AtomMatches(a.ch, s[i])
                  /\ MatchHere(Tail(atoms), s, i + 1)

\* re.search of the compiled pattern in s
RegexSearch(pat, s) == \E i \in 1..(Len(s) + 1) : MatchHere(Atoms(pat), s, i)

\* Series.str.contains(pat, case=False, na=False): pat is a regular expression
\* (regex=True is the default)
str_contains(series, pat) == [i \in 1..Len(series) |-> RegexSearch(pat, series[i])]

filtered_issue_df(d, issue_input) ==
    BoolIndex(d, str_contains([i \in 1..Len(d) |-> d[i].CustomerIssue], issue_input))

filtered_action_df(d, action_input) ==
    BoolIndex(d, str_contains([i \in 1..Len(d) |-> d[i].AgentsActions], action_input))

(* --------------------------- the script run ---------------------------- *)

NoWidgets == [search_input |-> <<>>, issue_input |-> <<>>, action_input |-> <<>>]

BlankPage ==
    [shown |-> {},
     anxiety_df_with_total |-> <<>>,
     sorted_keywords |-> <<>>,
     filtered_df_dropdown |-> <<>>,
     filtered_df_text |-> <<>>,
     filtered_issue_df |-> <<>>,
     filtered_action_df |-> <<>>]

\* what the user types into "Enter keywords separated by commas:"
SearchInputs == {<<>>, <<"R">>, <<"r", ",", "R">>, <<" ", "C", ",">>, <<",">>}

\* what the user types into "Search in Customer Issue:" and "Search in Agent's
\* Actions:"
ContainsInputs == {<<>>, <<"a">>, <<".">>, <<"(">>, <<"*">>, <<"a", "*">>}

InitPipeline ==
    /\ uploaded_file = NoFile
    /\ pc = "idle"
    /\ df = NoTable
    /\ slots = <<>>
    /\ df_cleaned = <<>>
    /\ errors = {}
    /\ exception = NoException
    /\ widgets = NoWidgets
    /\ page = BlankPage

Init == InitPipeline /\ text = <<>> /\ sections = NotRun

\* the user uploads a file into the empty uploader: the script runs from the
\* top and calls load_and_process (a miss of the cache)
Upload(file) ==
    /\ pc = "idle"
    /\ uploaded_file' = file
    /\ pc' = "load"
    /\ UNCHANGED <<df, slots, df_cleaned, errors, exception, widgets, page>>
    /\ UNCHANGED evars

\* the user removes the upload, after a run that ended normally, with an
\* st.error or with an exception: the script runs with uploaded_file None and
\* renders nothing; the uploader is ready for the next file
RemoveUpload ==
    /\ pc \in {"done", "exception"}
    /\ uploaded_file' = NoFile
    /\ pc' = "idle"
    /\ df' = NoTable
    /\ slots' = <<>>
    /\ df_cleaned' = <<>>
    /\ errors' = {}
    /\ exception' = NoException
    /\ widgets' = NoWidgets
    /\ page' = BlankPage
    /\ UNCHANGED evars

\* load_and_process up to the apply: read_large_csv and the search for the
\* text column
ReadFile ==
    /\ pc = "load"
    /\ IF uploaded_file.kind = "unreadable"
       THEN errors' = {ErrRead} /\ pc' = "main" /\ UNCHANGED <<df, slots>>
       ELSE IF uploaded_file.rows = <<>>
       THEN \* df.empty; or the reader yields no chunk and pd.concat raises
            /\ errors' \in {{ErrEmpty}, {ErrRead}}
            /\ pc' = "main"
            /\ UNCHANGED <<df, slots>>
       ELSE IF text_column(uploaded_file.columns) = <<>>
       THEN /\ errors' = {ErrNoColumn}
            /\ pc' = "main"
            /\ df' = [columns |-> uploaded_file.columns, rows |-> uploaded_file.rows]
            /\ UNCHANGED slots
       ELSE /\ df' = [columns |-> uploaded_file.columns, rows |-> uploaded_file.rows]
            /\ slots' = [i \in 1..Len(uploaded_file.rows) |-> Pending]
            /\ pc' = "apply"
            /\ UNCHANGED errors
    /\ UNCHANGED <<uploaded_file, df_cleaned, exception, widgets, page>>
    /\ UNCHANGED evars

\* df[text_column].swifter.apply(extract_sections): a worker takes one row not
\* yet done, in any order; re.search raises TypeError on a NaN
ApplyRow(i) ==
    /\ pc = "apply"
    /\ i \in 1..Len(slots)
    /\ slots[i] = Pending
    /\ LET cell == df.rows[i][text_column(df.columns)[1]]
       IN  IF cell.isna
           THEN /\ exception' = [type |-> "TypeError", at |-> "extract_sections"]
                /\ pc' = "exception"
                /\ UNCHANGED slots
           ELSE /\ slots' = WriteSlot(slots, i, extract_sections(cell.str))
                /\ UNCHANGED <<exception, pc>>
    /\ UNCHANGED <<uploaded_file, df, df_cleaned, errors, widgets, page>>
    /\ UNCHANGED evars

\* the rest of load_and_process: the keyword lists and the extra columns
Assemble ==
    /\ pc = "apply"
    /\ \A i \in 1..Len(slots) : slots[i] # Pending
    /\ df_cleaned' = [i \in 1..Len(slots) |-> WorkingRow(df, i, slots[i][1])]
    /\ pc' = "main"
    /\ UNCHANGED <<uploaded_file, df, slots, errors, exception, widgets, page>>
    /\ UNCHANGED evars

\* if not df_cleaned.empty
MainGuardAlways(d) == TRUE

MainGuard(d) == d # <<>>

\* the page down to the keyword search: none of it raises
PageToSearch(d, w) ==
    LET p1 == [BlankPage EXCEPT
                  !.shown = {"anxiety_df_with_total", "attribute_distribution",
                             "top_keywords_df", "filtered_df_dropdown"},
                  !.anxiety_df_with_total = anxiety_df_with_total(d),
                  !.sorted_keywords = sorted_keywords(d),
                  !.filtered_df_dropdown = filtered_df_dropdown(d)]
    IN  IF w.search_input = <<>> THEN p1
        ELSE [p1 EXCEPT !.shown = @ \cup {"filtered_df_text"},
                        !.filtered_df_text = filtered_df_text(d, w.search_input)]

PageToIssue(d, w) ==
    LET p2 == PageToSearch(d, w)
    IN  IF w.issue_input = <<>> THEN p2
        ELSE [p2 EXCEPT !.shown = @ \cup {"filtered_issue_df"},
                        !.filtered_issue_df = filtered_issue_df(d, w.issue_input)]

PageToEnd(d, w) ==
    LET p3 == PageToIssue(d, w)
        p4 == IF w.action_input = <<>> THEN p3
              ELSE [p3 EXCEPT !.shown = @ \cup {"filtered_action_df"},
                              !.filtered_action_df = filtered_action_df(d, w.action_input)]
    IN  [p4 EXCEPT !.shown = @ \cup {"preview", "download"}]

\* the main logic, with the text inputs' values w
MainLogic(w) ==
    /\ pc = "main"
    /\ IF ~MainGuard(df_cleaned)
       THEN pc' = "done" /\ UNCHANGED <<widgets, page, exception>>
       ELSE /\ widgets' = w
            /\ IF w.issue_input # <<>> /\ CompileError(w.issue_input)
               THEN /\ page' = PageToSearch(df_cleaned, w)
                    /\ exception' = [type |-> "re.error", at |-> "filtered_issue_df"]
                    /\ pc' = "exception"
               ELSE IF w.action_input # <<>> /\ CompileError(w.action_input)
               THEN /\ page' = PageToIssue(df_cleaned, w)
                    /\ exception' = [type |-> "re.error", at |-> "filtered_action_df"]
                    /\ pc' = "exception"
               ELSE /\ page' = PageToEnd(df_cleaned, w)
                    /\ pc' = "done"
                    /\ UNCHANGED exception
    /\ UNCHANGED <<uploaded_file, df, slots, df_cleaned, errors>>
    /\ UNCHANGED evars

\* the user changes a text input: the script runs again on the same upload.
\* A load_and_process that returned is answered from the cache (its st.error
\* replayed); one that raised is run again.
Rerun ==
    /\ pc \in {"done", "exception"}
    /\ IF exception.type = "TypeError"
       THEN /\ pc' = "load"
            /\ df' = NoTable
            /\ slots' = <<>>
       ELSE /\ pc' = "main"
            /\ UNCHANGED <<df, slots>>
    /\ exception' = NoException
    /\ widgets' = NoWidgets
    /\ page' = BlankPage
    /\ UNCHANGED <<uploaded_file, df_cleaned, errors>>
    /\ UNCHANGED evars

Next ==
    \/ \E file \in Files : Upload(file)
    \/ RemoveUpload
    \/ ReadFile
    \/ \E i \in 1..MaxRows : ApplyRow(i)
    \/ Assemble
    \/ \E s \in SearchInputs, a \in ContainsInputs, b \in ContainsInputs :
          MainLogic([search_input |-> s, issue_input |-> a, action_input |-> b])
    \/ Rerun

Spec == Init /\ [][Next]_vars

(* ------------------ the extractor applied to one text ------------------ *)

ExtractChars == {"\n", "a"}

Texts == SeqsUpTo(Labels \cup ExtractChars, MaxTextLen)

InitExtract == text \in Texts /\ sections = NotRun /\ InitPipeline

ExtractSections ==
    /\ sections = NotRun
    /\ sections' = extract_sections(text)
    /\ UNCHANGED text
    /\ UNCHANGED pvars

NextExtract == ExtractSections

SpecExtract == InitExtract /\ [][NextExtract]_vars

(* ------------------- properties of extract_sections -------------------- *)

Ran == sections # NotRun

Present(k) == \E i \in 1..Len(text) : text[i] = Label[k]

IsLabel(c) == c \in Labels

\* the marker tokens of the text, in the order they occur
LabelSeq == SelectSeq(text, IsLabel)

NoMarker(v) == \A i \in 1..Len(v) : v[i] \notin Labels

AllWhite(v) == \A i \in 1..Len(v) : v[i] \in Whitespace

\* v is raw with its leading and trailing whitespace removed
IsTrimOf(v, raw) ==
    /\ v = <<>> \/ (v[1] \notin Whitespace /\ v[Len(v)] \notin Whitespace)
    /\ \E a \in 0..Len(raw) :
          /\ a + Len(v) <= Len(raw)
          /\ SubSeq(raw, a + 1, a + Len(v)) = v
          /\ AllWhite(SubSeq(raw, 1, a))
          /\ AllWhite(SubSeq(raw, a + Len(v) + 1, Len(raw)))

\* the text between the marker at p[k] and the next chosen marker (the end of
\* the text after the last one), n markers chosen
Between(p, k, n) ==
    SubSeq(text, p[k] + 1, IF k < n THEN p[k + 1] - 1 ELSE Len(text))

\* increasing positions of the first n markers, in label order
Occurrences(n) ==
    {p \in [1..n -> 1..Len(text)] :
        /\ \A k \in 1..n : text[p[k]] = Label[k]
        /\ \A k \in 1..(n - 1) : p[k] < p[k + 1]}

\* C1 as stated: whenever the text contains the four markers in label order,
\* the fields are the trimmed texts between some such occurrences (the fourth
\* to the end of the text) and no field holds a marker.
C1_AsStated ==
    (Ran /\ Occurrences(4) # {}) =>
        /\ \E p \in Occurrences(4) :
              \A k \in 1..4 : IsTrimOf(sections[k], Between(p, k, 4))
        /\ \A k \in 1..4 : NoMarker(sections[k])

\* C1, amended: when the markers of the text are exactly the four labels, once
\* each and in label order, each of the first three fields is the trimmed text
\* between its marker and the next, the fourth the trimmed text from its
\* marker to the end, and no field holds a marker.
C1_ExactWhenEachLabelOnce ==
    (Ran /\ LabelSeq = Label) =>
        /\ \A p \in Occurrences(4) :
              \A k \in 1..4 : IsTrimOf(sections[k], Between(p, k, 4))
        /\ \A k \in 1..4 : NoMarker(sections[k])

C1_Witness ==
    /\ Ran
    /\ LabelSeq = Label
    /\ Len(text) > Len(sections[1]) + 4
    /\ sections[1] # <<>>

\* C2 as stated: with exactly the first k markers present (k < 4), the fields
\* of the missing markers are empty and every field whose marker is present is
\* the trimmed text from its marker to the next marker, or to the end of the
\* text for the last marker present.
C2_AsStated ==
    \A n \in 1..3 :
        (Ran /\ LabelSeq = SubSeq(Label, 1, n)) =>
            /\ \A k \in (n + 1)..4 : sections[k] = <<>>
            /\ \A p \in Occurrences(n) :
                  \A k \in 1..n : IsTrimOf(sections[k], Between(p, k, n))

\* C2, amended: with exactly the first k markers present (k < 4), the fields
\* of the missing markers and of the last marker present are empty, and every
\* earlier field is the trimmed text between its marker and the next.
C2_TrailingLabelsMissing ==
    \A n \in 1..3 :
        (Ran /\ LabelSeq = SubSeq(Label, 1, n)) =>
            /\ \A k \in n..4 : sections[k] = <<>>
            /\ \A p \in Occurrences(n) :
                  \A k \in 1..(n - 1) : IsTrimOf(sections[k], Between(p, k, n))

C2_Witness ==
    /\ Ran
    /\ LabelSeq = SubSeq(Label, 1, 2)
    /\ sections[1] # <<>>
    /\ Len(text) > Len(sections[1]) + 2
    /\ text[Len(text)] \notin Labels \cup Whitespace

\* C3 as stated: a missing k-th marker empties field k and every later field.
C3_AsStated ==
    \A k \in 1..4 :
        (Ran /\ ~Present(k)) => \A j \in k..4 : sections[j] = <<>>

\* C3, amended: a missing k-th marker empties field k and the field before it
\* (whose section the k-th marker would close); later fields are not emptied
\* by it.
C3_MissingLabelEmptiesNeighbours ==
    \A k \in 1..4 :
        (Ran /\ ~Present(k)) =>
            /\ sections[k] = <<>>
            /\ k > 1 => sections[k - 1] = <<>>

C3_Witness ==
    /\ Ran
    /\ ~Present(2)
    /\ Present(1)
    /\ sections[1] = <<>>
    /\ sections[3] # <<>>

(* ------------------- properties of the script run ---------------------- *)

\* load_and_process returned a table with rows
TableProduced ==
    /\ errors = {}
    /\ pc \in {"main", "done"} \/ (pc = "exception" /\ exception.type = "re.error")

\* the main logic ran past its guard
MainRan == pc \in {"done", "exception"} /\ exception.type # "TypeError" /\ df_cleaned # <<>>

SameLetter(c, d) == c = d \/ {c, d} \in {{"a", "A"}, {"c", "C"}, {"r", "R"}}

EqualIgnoringCase(x, y) ==
    Len(x) = Len(y) /\ \A i \in 1..Len(x) : SameLetter(x[i], y[i])

\* sub occurs in s as a literal substring, letter case ignored
ContainsIgnoringCase(s, sub) ==
    \E i \in 0..(Len(s) - Len(sub)) : EqualIgnoringCase(SubSeq(s, i + 1, i + Len(sub)), sub)

\* C4 as stated: extraction never fails a row, whatever cell the reader hands
\* over: no script run ends with an exception raised by extract_sections.
C4_AsStated == ~(pc = "exception" /\ exception.at = "extract_sections")

\* C5: under every order in which the rows are applied, the working table
\* load_and_process returns has as many rows as the input, and its i-th row
\* holds the fields, the keyword list and the pass-through values of input
\* row i.
C5_RowsPreserved ==
    TableProduced =>
        /\ Len(df_cleaned) = Len(uploaded_file.rows)
        /\ \A i \in 1..Len(df_cleaned) :
              LET row == uploaded_file.rows[i]
                  col == CHOOSE c \in DOMAIN row : HasThreadText(c)
                  secs == extract_sections(row[col].str)
              IN  /\ df_cleaned[i].CustomerIssue = secs[1]
                  /\ df_cleaned[i].AgentsActions = secs[2]
                  /\ df_cleaned[i].CustomersAnxiety = secs[3]
                  /\ df_cleaned[i].ImportantKeywords = secs[4]
                  /\ df_cleaned[i].KeywordList = KeywordList(secs[4])
                  /\ \A c \in PassThroughCols :
                        df_cleaned[i].extra[c] =
                            IF c \in DOMAIN row THEN row[c] ELSE Str(<<>>)

C5_Witness ==
    /\ TableProduced
    /\ pc = "done"
    /\ Len(df_cleaned) >= 2
    /\ df_cleaned[1].CustomerIssue # df_cleaned[2].CustomerIssue
    /\ df_cleaned[1].extra["ASP_slab"] # df_cleaned[2].extra["ASP_slab"]

\* C6 as stated: for every non-empty search string, "." , "*" and "("
\* included, the filter on Customer Issue and the filter on Agent's Actions
\* never fail and return, in row order, exactly the rows whose field contains
\* the string as a literal substring, letter case ignored.
C6_AsStated ==
    /\ (MainRan /\ widgets.issue_input # <<>>) =>
          /\ exception.at # "filtered_issue_df"
          /\ page.filtered_issue_df =
                SelectSeq(df_cleaned,
                    LAMBDA r : ContainsIgnoringCase(r.CustomerIssue, widgets.issue_input))
    /\ (MainRan /\ widgets.action_input # <<>> /\ exception.at # "filtered_issue_df") =>
          /\ exception.at # "filtered_action_df"
          /\ page.filtered_action_df =
                SelectSeq(df_cleaned,
                    LAMBDA r : ContainsIgnoringCase(r.AgentsActions, widgets.action_input))

Blank(v) == \A i \in 1..Len(v) : v[i] \in Whitespace

AnxietyRows(level) ==
    {i \in 1..Len(df_cleaned) : df_cleaned[i].CustomersAnxiety = level}

SumOf(counts) ==
    LET F[i \in 0..Len(counts)] == IF i = 0 THEN 0 ELSE F[i - 1] + counts[i]
    IN  F[Len(counts)]

\* C7: the anxiety count table has one entry per distinct anxiety value that
\* is neither empty nor whitespace-only, each with its number of rows, then
\* one Total entry whose count is the sum of the other counts, which is the
\* number of rows whose anxiety value is neither empty nor whitespace-only.
C7_AnxietyCounts ==
    "anxiety_df_with_total" \in page.shown =>
        LET t == page.anxiety_df_with_total
            n == Len(t) - 1
            levels == {df_cleaned[i].CustomersAnxiety : i \in 1..Len(df_cleaned)}
        IN  /\ n >= 0
            /\ {t[i].AnxietyLevel : i \in 1..n} = {v \in levels : ~Blank(v)}
            /\ \A i, j \in 1..n : t[i].AnxietyLevel = t[j].AnxietyLevel => i = j
            /\ \A i \in 1..n : t[i].Count = Cardinality(AnxietyRows(t[i].AnxietyLevel))
            /\ t[n + 1].AnxietyLevel = TotalLevel
            /\ t[n + 1].Count = SumOf([i \in 1..n |-> t[i].Count])
            /\ t[n + 1].Count =
                  Cardinality({i \in 1..Len(df_cleaned) : ~Blank(df_cleaned[i].CustomersAnxiety)})

C7_Witness ==
    /\ "anxiety_df_with_total" \in page.shown
    /\ Len(page.anxiety_df_with_total) >= 2
    /\ page.anxiety_df_with_total[Len(page.anxiety_df_with_total)].Count < Len(df_cleaned)
    /\ \E i \in 1..Len(df_cleaned) : df_cleaned[i].CustomersAnxiety = <<>>

\* the (row, keyword) pairs of the working table
KeywordPairs ==
    UNION {{<<i, j>> : j \in 1..Len(df_cleaned[i].KeywordList)} : i \in 1..Len(df_cleaned)}

PairsOf(kw) == {p \in KeywordPairs : df_cleaned[p[1]].KeywordList[p[2]] = kw}

\* the place of kw's first occurrence, the rows' lists read in row order
FirstSeen(kw) ==
    LET all == AllKeywords(df_cleaned)
    IN  CHOOSE i \in 1..Len(all) : all[i] = kw /\ \A j \in 1..(i - 1) : all[j] # kw

\* C8: the keyword frequency table has one entry per distinct keyword, with the
\* number of its occurrences over all rows' keyword lists (repeats within a
\* row counted); the counts sum to the number of (row, keyword) pairs; the
\* entries are in descending order of count, equal counts in the order the
\* keywords were first met.
C8_KeywordFrequency ==
    "top_keywords_df" \in page.shown =>
        LET sk == page.sorted_keywords
        IN  /\ {sk[i].key : i \in 1..Len(sk)} =
                  {df_cleaned[p[1]].KeywordList[p[2]] : p \in KeywordPairs}
            /\ \A i, j \in 1..Len(sk) : sk[i].key = sk[j].key => i = j
            /\ \A i \in 1..Len(sk) : sk[i].n = Cardinality(PairsOf(sk[i].key))
            /\ SumOf([i \in 1..Len(sk) |-> sk[i].n]) = Cardinality(KeywordPairs)
            /\ \A i, j \in 1..Len(sk) : i < j =>
                  \/ sk[i].n > sk[j].n
                  \/ sk[i].n = sk[j].n /\ FirstSeen(sk[i].key) < FirstSeen(sk[j].key)

C8_Witness ==
    /\ "top_keywords_df" \in page.shown
    /\ LET sk == page.sorted_keywords
       IN  /\ \E i \in 1..Len(sk) : sk[i].n >= 2
           /\ \E i, j \in 1..Len(sk) : i # j /\ sk[i].n = sk[j].n
    /\ \E i \in 1..Len(df_cleaned) : \E j, k \in 1..Len(df_cleaned[i].KeywordList) :
          j # k /\ df_cleaned[i].KeywordList[j] = df_cleaned[i].KeywordList[k]

\* the search keywords as the user typed them
TypedKeywords == SelectSeq(StripAll(Split(widgets.search_input, ",")), NonEmpty)

MatchesAnyIgnoringCase(r) ==
    \E k \in 1..Len(TypedKeywords) : \E j \in 1..Len(r.KeywordList) :
        EqualIgnoringCase(r.KeywordList[j], TypedKeywords[k])

\* C9: for a non-empty list of search keywords the multi-keyword search
\* returns, in row order, exactly the rows whose keyword list holds a token
\* equal to one of the search keywords, letter case ignored.
C9_AnyKeywordIgnoringCase ==
    ("filtered_df_text" \in page.shown /\ TypedKeywords # <<>>) =>
        page.filtered_df_text = SelectSeq(df_cleaned, MatchesAnyIgnoringCase)

C9_Witness ==
    /\ "filtered_df_text" \in page.shown
    /\ TypedKeywords = <<<<"R">>>>
    /\ \E i \in 1..Len(page.filtered_df_text) :
          \A j \in 1..Len(page.filtered_df_text[i].KeywordList) :
              page.filtered_df_text[i].KeywordList[j] # <<"R">>
    /\ Len(page.filtered_df_text) < Len(df_cleaned)

\* the upload cannot be read as a table, has no data row, or has no column
\* whose lowered name contains thread_text
IngestionFails ==
    \/ uploaded_file.kind = "unreadable"
    \/ /\ uploaded_file.kind = "table"
       /\ \/ uploaded_file.rows = <<>>
          \/ \A i \in 1..Len(uploaded_file.columns) : ~HasThreadText(uploaded_file.columns[i])

\* C10: when ingestion ends in one of its three errors, a message is on the
\* page, no row was extracted, nothing else is rendered (no table, filter
\* result, preview or download), no exception ends the run, and once the run
\* is over the upload can be replaced, which starts again from ingestion.
C10_IngestionErrorHalts ==
    (IngestionFails /\ pc \in {"main", "done", "exception"}) =>
        /\ errors # {}
        /\ slots = <<>>
        /\ df_cleaned = <<>>
        /\ page = BlankPage
        /\ pc # "exception"
        /\ exception = NoException
        /\ pc = "done" => ENABLED RemoveUpload

C10_Witness == pc = "done" /\ IngestionFails /\ errors = {ErrNoColumn}

====
